---- MODULE Spec2Model ----
(***************************************************************************)
(* zennquotes-server: the link issuance pipeline (POST /api/ogp), the      *)
(* redirect service (GET /:id) and the metadata extractor (fetchMetadata); *)
(* the request validator, the CORS middleware and the route table in front *)
(* of them; calculateFontSize and generateShortId.                         *)
(*                                                                         *)
(* Strings are sequences of tokens.  A token is one character ("a", "<",   *)
(* "\"", " ") or one fixed chunk of text that the code writes as a whole   *)
(* (a template piece, a host name, an identifier).                          *)
(***************************************************************************)
EXTENDS Integers, Sequences, FiniteSets, TLC

VARIABLES
    records,     \* D1 table quote_links: the set of its rows
    blobs,       \* R2 bucket: key -> stored body
    issue,       \* POST /api/ogp requests in flight, one per worker slot
    resolve,     \* GET /:id requests in flight, one per worker slot
    now,         \* the wall clock: Date.now() reads it, and time then moves on
    nIssue,      \* number of POST /api/ogp requests received so far
    nResolve,    \* number of GET /:id requests received so far
    env,         \* c.env.R2_BUCKET_PUBLIC_URL
    page,        \* extractor harness: the article page handed to fetchMetadata
    extracted,   \* extractor harness: what fetchMetadata returned for it
    textLength,  \* font harness: the argument of calculateFontSize
    fontSize,    \* font harness: what calculateFontSize returned for it
    shortId,     \* generateShortId: its loop counter i and its local result
    generator,   \* module state of generator.ts: the font caches, wasmInitialized
    glyph        \* glyph harness: one call of loadAdditionalAsset and its result

vars == <<records, blobs, issue, resolve, now, nIssue, nResolve,
          env, page, extracted, textLength, fontSize, shortId,
          generator, glyph>>

-----------------------------------------------------------------------------
(* Bounds *)

MaxIssue == 2
MaxResolve == 2
MaxClock == 1
MaxStrLen == 2

Issuers == {"i1", "i2"}
Resolvers == {"r1", "r2"}

-----------------------------------------------------------------------------
(* Strings *)

DQ == "\""
LoneSurrogate == "\\uD800"

RECURSIVE Flatten(_)
Flatten(ss) ==
    IF ss = <<>> THEN <<>>
    ELSE IF Len(ss) = 1 THEN ss[1]
    ELSE LET mid == Len(ss) \div 2
         IN  Flatten(SubSeq(ss, 1, mid)) \o Flatten(SubSeq(ss, mid + 1, Len(ss)))

Chars(s) == {s[i] : i \in 1..Len(s)}

SeqsUpTo(S, n) == UNION {[1..k -> S] : k \in 0..n}

\* A JavaScript value read out of the page payload: missing/falsy, a string,
\* or a truthy value that is no string.
Absent == [t |-> "absent", s |-> <<>>]
NonString == [t |-> "other", s |-> <<>>]
Null == [t |-> "null", s |-> <<>>]
Str(s) == [t |-> "str", s |-> s]

\* !v of JavaScript for the values above
Falsy(v) == v.t \in {"absent", "null"} \/ (v.t = "str" /\ v.s = <<>>)

-----------------------------------------------------------------------------
(* Metadata extractor: fetchMetadata *)

\* str.replace(/c/g, r): every token c of s replaced by the tokens r
RECURSIVE ReplaceAll(_, _, _)
ReplaceAll(s, c, r) ==
    IF s = <<>> THEN <<>>
    ELSE (IF Head(s) = c THEN r ELSE <<Head(s)>>) \o ReplaceAll(Tail(s), c, r)

sanitizeEscaping(str) ==
    ReplaceAll(ReplaceAll(str, "<", <<"&", "l", "t", ";">>), ">", <<"&", "g", "t", ";">>)

\* const sanitize = (str) => str.replace(/</g, '<').replace(/>/g, '>')
sanitize(str) == ReplaceAll(ReplaceAll(str, "<", <<"<">>), ">", <<">">>)

\* the literals of the catch block, written as their UTF-16 code units
TitleError == <<"\\u30BF\\u30A4\\u30C8\\u30EB\\u53D6\\u5F97\\u30A8\\u30E9\\u30FC">>
AuthorError == <<"\\u8457\\u8005\\u53D6\\u5F97\\u30A8\\u30E9\\u30FC">>

\* An article page as the extractor meets it.  kind is what happens on the way
\* to the payload: "throw" (fetch rejects), "notok" (response.ok is false),
\* "nomatch" (no __NEXT_DATA__ script tag), "badjson" (JSON.parse throws),
\* "json" (payload parsed); title, author and avatar are the values at
\* props.pageProps.article.title, .user.username and .user.avatarUrl.
PageKinds == {"throw", "notok", "nomatch", "badjson", "json"}

BrokenPage(k) == [kind |-> k, title |-> Absent, author |-> Absent, avatar |-> Absent]
JsonPage(t, a, v) == [kind |-> "json", title |-> t, author |-> a, avatar |-> v]

Raised == [raised |-> TRUE, title |-> <<>>, author |-> <<>>, authorAvatarUrl |-> Null]

\* the body of the try block; raised = TRUE when a statement of it throws
fetchMetadataTry(pg) ==
    IF pg.kind # "json" THEN Raised
    ELSE IF Falsy(pg.title) \/ Falsy(pg.author) THEN Raised
    ELSE IF pg.title.t # "str" \/ pg.author.t # "str" THEN Raised
    ELSE [raised |-> FALSE,
          title |-> sanitize(pg.title.s),
          author |-> sanitize(pg.author.s),
          authorAvatarUrl |-> IF Falsy(pg.avatar) THEN Null ELSE pg.avatar]

fetchMetadataNoCatch(pg) == fetchMetadataTry(pg)

fetchMetadata(pg) ==
    LET r == fetchMetadataTry(pg)
    IN  IF r.raised
        THEN [raised |-> FALSE, title |-> TitleError, author |-> AuthorError,
              authorAvatarUrl |-> Null]
        ELSE r

\* Pages of the extractor harness
TextAlphabet == {"a", "<", ">"}
JsonStrings == {Str(s) : s \in SeqsUpTo(TextAlphabet, MaxStrLen)}
JsonValues == {Absent, NonString} \cup JsonStrings
Avatars == {Absent, Str(<<>>), Str(<<"https://storage.googleapis.com/zenn-user-upload/avatar/u.jpeg">>)}
Pages == {BrokenPage(k) : k \in PageKinds \ {"json"}}
            \cup {JsonPage(t, a, v) : t \in JsonValues, a \in JsonValues, v \in Avatars}

NoPage == BrokenPage("throw")
NotExtracted == [raised |-> FALSE, title |-> <<>>, author |-> <<>>, authorAvatarUrl |-> Null]
NotCalled == [called |-> FALSE, result |-> NotExtracted]

-----------------------------------------------------------------------------
(* Record store (D1 table quote_links) and blob store (R2 bucket) *)

RowFields == {"id", "quote", "title", "author", "original_url", "ogp_image_url",
              "author_avatar_url", "created_at"}

\* INSERT without the PRIMARY KEY constraint
D1InsertNoKey(rows, row) == [ok |-> TRUE, rows |-> rows \cup {row}]

\* INSERT OR REPLACE
D1InsertOrReplace(rows, row) ==
    [ok |-> TRUE, rows |-> {r \in rows : r.id # row.id} \cup {row}]

\* INSERT INTO quote_links (...) VALUES (...): id is the PRIMARY KEY; the
\* NOT NULL columns always receive strings or a number from the handler.
D1Insert(rows, row) ==
    IF \E r \in rows : r.id = row.id
    THEN [ok |-> FALSE, rows |-> rows]
    ELSE [ok |-> TRUE, rows |-> rows \cup {row}]

NoRow == [id |-> "", quote |-> <<>>, title |-> <<>>, author |-> <<>>,
          original_url |-> <<>>, ogp_image_url |-> <<>>,
          author_avatar_url |-> Null, created_at |-> 0]

\* a lookup that ignores its WHERE clause
D1FirstAny(rows, id) ==
    IF rows = {} THEN [found |-> FALSE, row |-> NoRow]
    ELSE [found |-> TRUE, row |-> CHOOSE r \in rows : TRUE]

\* SELECT ... FROM quote_links WHERE id = ?  .first()
D1First(rows, id) ==
    IF \E r \in rows : r.id = id
    THEN [found |-> TRUE, row |-> CHOOSE r \in rows : r.id = id]
    ELSE [found |-> FALSE, row |-> NoRow]

NoBlobs == [k \in {} |-> 0]

\* a put that reports success without storing the body
R2PutLost(bl, key, body) == bl

\* R2_BUCKET.put(key, body): stores the body under the key, replacing what
\* was there
R2Put(bl, key, body) ==
    [k \in DOMAIN bl \cup {key} |-> IF k = key THEN body ELSE bl[k]]

-----------------------------------------------------------------------------
(* POST /api/ogp *)

\* generateShortId(): the identifiers the random draw yields in this model
Ids == {"abc1234", "k3x9q0z"}

DefaultHost == "zennq-img.folks-chat.com"
Envs == {Absent, Str(<<"img.example.org">>)}

\* encodeURIComponent on one token: unreserved characters are kept, every
\* other character becomes the %XX of its UTF-8 bytes
encodeChar(c) ==
    CASE c = " " -> <<"%", "2", "0">>
      [] c = DQ -> <<"%", "2", "2">>
      [] c = "<" -> <<"%", "3", "C">>
      [] c = ">" -> <<"%", "3", "E">>
      [] OTHER -> <<c>>

\* encodeURIComponent(s); it throws URIError on a lone surrogate
encodeURIComponent(s) ==
    IF LoneSurrogate \in Chars(s)
    THEN [raised |-> TRUE, s |-> <<>>]
    ELSE [raised |-> FALSE, s |-> Flatten([i \in 1..Len(s) |-> encodeChar(s[i])])]

\* the image rendered by satori and resvg: a function of what is drawn
Image(quote, title, author, avatar) ==
    [quote |-> quote, title |-> title, author |-> author, avatar |-> avatar]

NoImage == Image(<<>>, <<>>, <<>>, Null)

r2Key(id) == <<"ogp/", id, ".png">>

ogpImageUrlOf(e, id) ==
    <<"https://", IF Falsy(e) THEN DefaultHost ELSE Head(e.s), "/">> \o r2Key(id)

\* the bucket key a public image URL names
KeyOfUrl(u) == SubSeq(u, 4, Len(u))

Fragment == "#:~:text="

\* Request bodies that pass OgpRequestSchema
Inputs == {[quote |-> <<"H", "i", " ", "<">>, url |-> <<"https://zenn.dev/", "u", "/articles/", "abc">>],
           [quote |-> <<"a", DQ>>, url |-> <<"https://zenn.dev/", "u", DQ, "x">>],
           [quote |-> <<LoneSurrogate>>, url |-> <<"https://zenn.dev/", "u", "/articles/", "abc">>]}

\* What the article fetch can meet while the service runs
LivePages == {BrokenPage("notok"),
              JsonPage(Str(<<"<", "a">>), Str(<<"a">>), Str(<<"https://storage.googleapis.com/zenn-user-upload/avatar/u.jpeg">>))}

\* the issued records, each with the body stored under the key its image URL names
Issued(rows, bl) ==
    {[row |-> r,
      blob |-> IF KeyOfUrl(r.ogp_image_url) \in DOMAIN bl
               THEN bl[KeyOfUrl(r.ogp_image_url)] ELSE NoImage] : r \in rows}

\* --- OgpRequestSchema: what zValidator('json', ...) lets through ---

Repeat(tok, n) == [i \in 1..n |-> tok]

QuoteMax == 200

\* z.string().url(): the text parses as a URL.  A text parses when it opens
\* with a scheme and an authority; these are the openings the model's texts use.
UrlOpenings == {"https://zenn.dev/", "https://zenn.dev", "http://zenn.dev/",
                "https://example.com/"}
IsUrl(str) == str # <<>> /\ Head(str) \in UrlOpenings

\* url.startsWith('https://zenn.dev/'); the prefix is a token of its own in
\* every text that has it
AllowedPrefix == "https://zenn.dev/"
startsWith(str, prefix) == str # <<>> /\ Head(str) = prefix

\* a schema whose limit is one character too generous
QuoteFieldLax(v) == v.t = "str" /\ Len(v.s) <= QuoteMax + 1

\* quote: z.string().max(200, ...)
QuoteField(v) == v.t = "str" /\ Len(v.s) <= QuoteMax

\* url: z.string().url().refine(url => url.startsWith('https://zenn.dev/'))
UrlField(v) == v.t = "str" /\ IsUrl(v.s) /\ startsWith(v.s, AllowedPrefix)

NoBody == [quote |-> Absent, url |-> Absent]

\* safeParse: success and the parsed data, or failure
OgpRequestSchema(body) ==
    IF QuoteField(body.quote) /\ UrlField(body.url)
    THEN [success |-> TRUE, data |-> [quote |-> body.quote.s, url |-> body.url.s]]
    ELSE [success |-> FALSE, data |-> [quote |-> <<>>, url |-> <<>>]]

ArticleUrl == <<"https://zenn.dev/", "u", "/articles/", "abc">>

\* JSON bodies clients send: well formed ones, quotes at and around the limit,
\* and urls that are missing, unparsable, or somewhere else
Bodies ==
    {[quote |-> Str(<<"H", "i">>), url |-> Str(ArticleUrl)],
     [quote |-> Str(Repeat("a", QuoteMax)), url |-> Str(ArticleUrl)],
     [quote |-> Str(<<>>), url |-> Str(ArticleUrl)],
     [quote |-> Str(Repeat("a", QuoteMax + 1)), url |-> Str(ArticleUrl)],
     [quote |-> NonString, url |-> Str(ArticleUrl)],
     [quote |-> Absent, url |-> Str(ArticleUrl)],
     [quote |-> Str(<<"H", "i">>), url |-> Absent],
     [quote |-> Str(<<"H", "i">>), url |-> Str(<<"zenn.dev/", "u">>)],
     [quote |-> Str(<<"H", "i">>), url |-> Str(<<"https://example.com/", "a">>)],
     [quote |-> Str(<<"H", "i">>), url |-> Str(<<"https://zenn.dev", ".evil.example/", "a">>)],
     [quote |-> Str(<<"H", "i">>), url |-> Str(<<"http://zenn.dev/", "u">>)]}

\* --- the CORS middleware of /api/* ---

AllowOrigin == "Access-Control-Allow-Origin"
AllowMethods == "Access-Control-Allow-Methods"
AllowHeaders == "Access-Control-Allow-Headers"
Vary == "Vary"

NoHeaders == [h \in {} |-> <<>>]
Header(name, value) == [h \in {name} |-> value]

\* /^chrome-extension:\/\/.*/.test(origin): the text opens with the scheme
TestChromeExtension(str) == str # <<>> /\ Head(str) = "chrome-extension://"
\* /^https:\/\/zenn\.dev$/.test(origin): the text is exactly this
TestZennDev(str) == str = <<"https://zenn.dev">>

\* Origin headers clients send
Origins == {Absent,
            Str(<<"https://zenn.dev">>),
            Str(<<"chrome-extension://", "abcdefgh">>),
            Str(<<"https://zenn.dev", ".evil.example">>)}

\* a middleware that echoes whatever origin it is sent
corsEchoAny(origin, method) ==
    [headers |-> (IF origin.t = "str" THEN Header(AllowOrigin, origin.s) ELSE NoHeaders)
                 @@ Header(AllowMethods, <<"POST, GET, OPTIONS">>)
                 @@ Header(AllowHeaders, <<"Content-Type">>)
                 @@ Header(Vary, <<"Origin">>),
     answered |-> method = "OPTIONS"]

\* a middleware that sets its headers for allowed origins only
corsAllowedOnly(origin, method) ==
    LET isAllowed == /\ origin.t = "str" /\ origin.s # <<>>
                     /\ (TestChromeExtension(origin.s) \/ TestZennDev(origin.s))
    IN  [headers |-> IF isAllowed
                     THEN Header(AllowOrigin, origin.s)
                          @@ Header(AllowMethods, <<"POST, GET, OPTIONS">>)
                          @@ Header(AllowHeaders, <<"Content-Type">>)
                          @@ Header(Vary, <<"Origin">>)
                     ELSE NoHeaders,
         answered |-> method = "OPTIONS"]

\* a middleware that passes OPTIONS on like any other method
corsNoPreflight(origin, method) ==
    LET isAllowed == /\ origin.t = "str" /\ origin.s # <<>>
                     /\ (TestChromeExtension(origin.s) \/ TestZennDev(origin.s))
    IN  [headers |-> (IF isAllowed THEN Header(AllowOrigin, origin.s) ELSE NoHeaders)
                     @@ Header(AllowMethods, <<"POST, GET, OPTIONS">>)
                     @@ Header(AllowHeaders, <<"Content-Type">>)
                     @@ Header(Vary, <<"Origin">>),
         answered |-> FALSE]

\* The middleware: the headers it sets on the context, and whether it answers
\* the request itself (OPTIONS, 204) instead of calling next().
cors(origin, method) ==
    LET isAllowed == /\ origin.t = "str" /\ origin.s # <<>>
                     /\ (TestChromeExtension(origin.s) \/ TestZennDev(origin.s))
    IN  [headers |-> (IF isAllowed THEN Header(AllowOrigin, origin.s) ELSE NoHeaders)
                     @@ Header(AllowMethods, <<"POST, GET, OPTIONS">>)
                     @@ Header(AllowHeaders, <<"Content-Type">>)
                     @@ Header(Vary, <<"Origin">>),
         answered |-> method = "OPTIONS"]

\* requests to /api/ogp: a preflight, a POST with a body, a GET
ApiRequests ==
    {[method |-> "OPTIONS", origin |-> o, body |-> NoBody] : o \in Origins}
    \cup {[method |-> "POST", origin |-> o, body |-> b] : o \in Origins, b \in Bodies}
    \cup {[method |-> "GET", origin |-> o, body |-> NoBody] : o \in Origins}

GenericError == [error |-> "Failed to generate OGP link"]
NoResponse == [status |-> 0, body |-> [none |-> TRUE]]

\* how often this request has called fetchMetadata, R2_BUCKET.put and the
\* INSERT statement's run()
NoCalls == [fetch |-> 0, put |-> 0, insert |-> 0]

IdleIssue ==
    [pc |-> "idle", quote |-> <<>>, url |-> <<>>, id |-> "",
     pg |-> NoPage, meta |-> NotExtracted, png |-> NoImage, row |-> NoRow,
     failedAt |-> "none", inserted |-> FALSE, resp |-> NoResponse,
     pre |-> {},
     method |-> "", origin |-> Absent, body |-> NoBody, headers |-> NoHeaders,
     calls |-> NoCalls, font |-> "", initsBefore |-> 0, invokedInit |-> FALSE]

\* The handler returns: its locals are gone, the request and the response stay
\* on record until the slot takes the next request.
Returned(slot, resp) ==
    [slot EXCEPT !.pc = "done", !.meta = NotExtracted, !.png = NoImage,
                 !.row = NoRow, !.resp = resp]

\* a catch block that answers as if the request had gone through
FailedAs200(slot, step) ==
    Returned([slot EXCEPT !.failedAt = step],
             [status |-> 200, body |-> [id |-> slot.id, ogpImageUrl |-> slot.row.ogp_image_url]])

\* a render call that swallows its failure and hands on an empty image
FailedDegraded(slot, step) ==
    IF step \in {"font", "init", "layout"}
    THEN [slot EXCEPT !.failedAt = step, !.pc = "put"]
    ELSE Returned([slot EXCEPT !.failedAt = step], [status |-> 500, body |-> GenericError])

\* a pipeline that tries a failed put or insert a second time
FailedRetrying(slot, step) ==
    IF step \in {"put", "insert"} /\ slot.calls[step] < 2
    THEN [slot EXCEPT !.pc = step]
    ELSE Returned([slot EXCEPT !.failedAt = step], [status |-> 500, body |-> GenericError])

\* a catch block that tells the client which step failed
FailedLeaky(slot, step) ==
    Returned([slot EXCEPT !.failedAt = step], [status |-> 500, body |-> [error |-> step]])

\* catch (error) { return c.json({ error: ... }, 500) }
Failed(slot, step) ==
    Returned([slot EXCEPT !.failedAt = step], [status |-> 500, body |-> GenericError])

\* --- the routes, in the order index.ts registers them ---

ApiOgp == <<"api", "ogp">>

Routes ==
    <<[method |-> "ALL",  path |-> "/api/*",       handler |-> "cors",    middleware |-> TRUE],
      [method |-> "POST", path |-> "/api/ogp",     handler |-> "issue",   middleware |-> FALSE],
      [method |-> "GET",  path |-> "/:id",         handler |-> "resolve", middleware |-> FALSE],
      [method |-> "GET",  path |-> "/favicon.ico", handler |-> "favicon", middleware |-> FALSE],
      [method |-> "GET",  path |-> "/",            handler |-> "hello",   middleware |-> FALSE]>>

\* a request path is the sequence of its segments; "/" has none
PathMatches(pattern, path) ==
    CASE pattern = "/api/*"       -> path # <<>> /\ Head(path) = "api"
      [] pattern = "/api/ogp"     -> path = ApiOgp
      [] pattern = "/:id"         -> Len(path) = 1
      [] pattern = "/favicon.ico" -> path = <<"favicon.ico">>
      [] pattern = "/"            -> path = <<>>

Matching(method, path) ==
    {i \in DOMAIN Routes : /\ Routes[i].method \in {"ALL", method}
                           /\ PathMatches(Routes[i].path, path)}

\* Matching handlers run in registration order.  The middleware calls next();
\* each route handler of this app answers without calling it, so the first
\* matching route handler answers the request.
FirstHandler(method, path) ==
    LET m == {i \in Matching(method, path) : ~Routes[i].middleware}
    IN  IF m = {} THEN "notFound"
        ELSE Routes[CHOOSE i \in m : \A j \in m : i <= j].handler

ThroughCors(method, path) ==
    \E i \in Matching(method, path) : Routes[i].handler = "cors"

\* the handler is entered with a validated body and a fresh identifier
IssueStart(p) ==
    /\ issue[p].pc \in {"idle", "done"}
    /\ nIssue < MaxIssue
    /\ \E in \in Inputs, id \in Ids :
          issue' = [issue EXCEPT ![p] =
                      [IdleIssue EXCEPT !.pc = "meta",
                                        !.quote = in.quote, !.url = in.url, !.id = id,
                                        !.pre = Issued(records, blobs)]]
    /\ nIssue' = nIssue + 1
    /\ UNCHANGED <<records, blobs, resolve, now, nResolve, env, page, extracted,
                   textLength, fontSize, shortId,
                   generator, glyph>>

\* One request to /api/ogp from its arrival to the handler's first await: the
\* CORS middleware, the router, zValidator, then const id = generateShortId().
Receive(p) ==
    /\ issue[p].pc \in {"idle", "done"}
    /\ nIssue < MaxIssue
    /\ \E req \in ApiRequests, id \in Ids :
          LET mw == IF ThroughCors(req.method, ApiOgp)
                    THEN cors(req.origin, req.method)
                    ELSE [headers |-> NoHeaders, answered |-> FALSE]
              slot == [IdleIssue EXCEPT !.method = req.method, !.origin = req.origin,
                                        !.body = req.body, !.headers = mw.headers,
                                        !.pre = Issued(records, blobs)]
              v == OgpRequestSchema(req.body)
          IN  issue' = [issue EXCEPT ![p] =
                 IF mw.answered
                 THEN Returned(slot, [status |-> 204, body |-> [none |-> TRUE]])
                 ELSE IF FirstHandler(req.method, ApiOgp) # "issue"
                 THEN Returned(slot, [status |-> 404, body |-> [text |-> "404 Not Found"]])
                 ELSE IF ~v.success
                 THEN Returned(slot, [status |-> 400, body |-> [success |-> FALSE]])
                 ELSE [slot EXCEPT !.pc = "meta", !.quote = v.data.quote,
                                   !.url = v.data.url, !.id = id]]
    /\ nIssue' = nIssue + 1
    /\ UNCHANGED <<records, blobs, resolve, now, nResolve, env, page, extracted,
                   textLength, fontSize, shortId,
                   generator, glyph>>

\* 1. await fetchMetadata(originalUrlInput)
IssueFetchMetadata(p) ==
    /\ issue[p].pc = "meta"
    /\ \E pg \in LivePages :
          LET m == fetchMetadata(pg)
              slot == [issue[p] EXCEPT !.pg = pg, !.calls.fetch = @ + 1]
          IN  issue' = [issue EXCEPT ![p] =
                          IF m.raised THEN Failed(slot, "meta")
                          ELSE [slot EXCEPT !.pc = "render", !.meta = m]]
    /\ UNCHANGED <<records, blobs, resolve, now, nIssue, nResolve, env, page, extracted,
                   textLength, fontSize, shortId,
                   generator, glyph>>

\* 2. await generateOgpImage(quote, title, author, authorAvatarUrl, R2_BUCKET)
IssueRender(p) ==
    /\ issue[p].pc = "render"
    /\ \/ LET slot == issue[p]
          IN  issue' = [issue EXCEPT ![p] =
                          [slot EXCEPT !.pc = "put",
                                       !.png = Image(slot.quote, slot.meta.title,
                                                     slot.meta.author,
                                                     slot.meta.authorAvatarUrl)]]
       \/ issue' = [issue EXCEPT ![p] = Failed(@, "render")]
    /\ UNCHANGED <<records, blobs, resolve, now, nIssue, nResolve, env, page, extracted,
                   textLength, fontSize, shortId,
                   generator, glyph>>

\* 3. await R2_BUCKET.put(r2Key, pngBuffer), then, in the same turn, the public
\* URL, 4. the URL with the text fragment, and 5. the row with Date.now()
IssuePut(p) ==
    /\ issue[p].pc = "put"
    /\ \/ /\ issue' = [issue EXCEPT ![p] =
                      Failed([issue[p] EXCEPT !.calls.put = @ + 1], "put")]
          /\ UNCHANGED <<blobs, now>>
       \/ LET slot == [issue[p] EXCEPT !.calls.put = @ + 1]
              enc == encodeURIComponent(slot.quote)
          IN  /\ blobs' = R2Put(blobs, r2Key(slot.id), slot.png)
              /\ IF enc.raised
                 THEN /\ issue' = [issue EXCEPT ![p] = Failed(slot, "encode")]
                      /\ UNCHANGED now
                 ELSE \E t \in {now} :
                        /\ now' = IF now < MaxClock THEN now + 1 ELSE now
                        /\ issue' = [issue EXCEPT ![p] =
                             [slot EXCEPT !.pc = "insert",
                                          !.row = [id |-> slot.id,
                                                quote |-> slot.quote,
                                                title |-> slot.meta.title,
                                                author |-> slot.meta.author,
                                                original_url |-> slot.url \o <<Fragment>> \o enc.s,
                                                ogp_image_url |-> ogpImageUrlOf(env, slot.id),
                                                author_avatar_url |-> slot.meta.authorAvatarUrl,
                                                created_at |-> t]]]
    /\ UNCHANGED <<records, resolve, nIssue, nResolve, env, page, extracted,
                   textLength, fontSize, shortId,
                   generator, glyph>>

\* 5. await stmt.bind(...).run(), 6. return c.json({ id, ogpImageUrl })
\* inserted records whether this request's statement changed the table.
IssueInsert(p) ==
    /\ issue[p].pc = "insert"
    /\ \/ /\ issue' = [issue EXCEPT ![p] =
                      Failed([issue[p] EXCEPT !.calls.insert = @ + 1], "insert")]
          /\ UNCHANGED records
       \/ LET slot == [issue[p] EXCEPT !.calls.insert = @ + 1]
              r == D1Insert(records, slot.row)
              done == [slot EXCEPT !.inserted = (r.rows # records)]
          IN  /\ records' = r.rows
              /\ issue' = [issue EXCEPT ![p] =
                   IF r.ok
                   THEN Returned(done, [status |-> 200,
                                        body |-> [id |-> slot.id,
                                                  ogpImageUrl |-> slot.row.ogp_image_url]])
                   ELSE Failed(done, "insert")]
    /\ UNCHANGED <<blobs, resolve, now, nIssue, nResolve, env, page, extracted,
                   textLength, fontSize, shortId,
                   generator, glyph>>

-----------------------------------------------------------------------------
(* GET /:id *)

Sentinel == "undefined"
\* the paths clients ask for: an identifier the generator can yield, and the
\* text a client sends when its template variable was never filled in
PathIds == {"abc1234", Sentinel}

OgImageOpen == "<meta property=\"og:image\" content="
RefreshOpen == "<meta http-equiv=\"refresh\" content="
RefreshDelay == "0; url="

\* the template literal of the handler, the interpolated fields in place; the
\* double quotes around each interpolated attribute value are tokens of their own
html(data) ==
    <<"\n<!DOCTYPE html>\n<html>\n<head>\n  <meta charset=\"utf-8\">\n  <meta name=\"viewport\" content=\"width=device-width, initial-scale=1\">\n  <title>">>
    \o data.title
    \o <<"</title>\n  ", "<meta property=\"og:title\" content=", DQ>> \o data.title
    \o <<DQ, " />\n  ", "<meta property=\"og:description\" content=", DQ>> \o data.quote
    \o <<DQ, " />\n  ", OgImageOpen, DQ>> \o data.ogp_image_url
    \o <<DQ, " />\n  ", "<meta property=\"og:url\" content=", DQ>> \o data.original_url
    \o <<DQ, " />\n  <meta property=\"og:type\" content=\"article\" />\n  <meta name=\"twitter:card\" content=\"summary_large_image\">\n  ",
         "<meta name=\"twitter:title\" content=", DQ>> \o data.title
    \o <<DQ, ">\n  ", "<meta name=\"twitter:description\" content=", DQ>> \o data.quote
    \o <<DQ, ">\n  ", "<meta name=\"twitter:image\" content=", DQ>> \o data.ogp_image_url
    \o <<DQ, ">\n  ", RefreshOpen, DQ, RefreshDelay>> \o data.original_url
    \o <<DQ, " />\n</head>\n<body>\n  <p>Redirecting to ", "<a href=", DQ>> \o data.original_url
    \o <<DQ, ">">> \o data.original_url
    \o <<"</a>...</p>\n</body>\n</html>\n  ">>

\* The value of the attribute that follows the first token `open` of a document,
\* as an HTML parser reads it: from the opening double quote to the next one.
FirstIndex(doc, tok, from) ==
    CHOOSE i \in from..Len(doc) :
        doc[i] = tok /\ \A j \in from..(i - 1) : doc[j] # tok

AttrValue(doc, open) ==
    LET k == FirstIndex(doc, open, 1)
        e == FirstIndex(doc, DQ, k + 2)
    IN  SubSeq(doc, k + 2, e - 1)

NoReply == [status |-> 0, body |-> <<>>]
IdleResolve ==
    [pc |-> "idle", id |-> "", queried |-> FALSE, lookup |-> "none", resp |-> NoReply]

NotFound == [status |-> 404, body |-> <<"Not Found">>]

\* a handler without the guard on the path 'undefined'
ResolveHandlerNoGuard(id, rows) ==
    {[pc |-> "done", id |-> id, queried |-> TRUE, lookup |-> "failed",
      resp |-> [status |-> 500, body |-> <<"Internal Server Error">>]]}
    \cup {LET data == D1First(rows, id)
          IN  [pc |-> "done", id |-> id, queried |-> TRUE,
               lookup |-> IF data.found THEN "hit" ELSE "miss",
               resp |-> IF data.found
                        THEN [status |-> 200, body |-> html(data.row)]
                        ELSE NotFound]}

\* a handler whose catch block reports a failed lookup as a miss
ResolveHandlerSwallow(id, rows) ==
    IF id = Sentinel
    THEN {[pc |-> "done", id |-> id, queried |-> FALSE, lookup |-> "none",
           resp |-> NotFound]}
    ELSE {[pc |-> "done", id |-> id, queried |-> TRUE, lookup |-> "failed",
           resp |-> NotFound]}
         \cup {LET data == D1First(rows, id)
               IN  [pc |-> "done", id |-> id, queried |-> TRUE,
                    lookup |-> IF data.found THEN "hit" ELSE "miss",
                    resp |-> IF data.found
                             THEN [status |-> 200, body |-> html(data.row)]
                             ELSE NotFound]}

\* The whole handler, as the set of ways it can end.  It touches shared state
\* once, at its only await, the lookup: const id = c.req.param('id');
\* if (id === 'undefined') return 404; await stmt.bind(id).first(); then the
\* 404, the HTML, or the catch block.
ResolveHandler(id, rows) ==
    IF id = Sentinel
    THEN {[pc |-> "done", id |-> id, queried |-> FALSE, lookup |-> "none",
           resp |-> NotFound]}
    ELSE {[pc |-> "done", id |-> id, queried |-> TRUE, lookup |-> "failed",
           resp |-> [status |-> 500, body |-> <<"Internal Server Error">>]]}
         \cup {LET data == D1First(rows, id)
               IN  [pc |-> "done", id |-> id, queried |-> TRUE,
                    lookup |-> IF data.found THEN "hit" ELSE "miss",
                    resp |-> IF data.found
                             THEN [status |-> 200, body |-> html(data.row)]
                             ELSE NotFound]}

\* GET /{id}, routed to the handler
Resolve(r) ==
    /\ nResolve < MaxResolve
    /\ \E id \in PathIds : \E out \in ResolveHandler(id, records) :
          resolve' = [resolve EXCEPT ![r] = out]
    /\ nResolve' = nResolve + 1
    /\ UNCHANGED <<records, blobs, issue, now, nIssue, env, page, extracted,
                   textLength, fontSize, shortId,
                   generator, glyph>>

Favicon == "favicon.ico"
Hello == <<"Hello Zenn Quotes!">>

\* the GET paths clients ask for outside /api: the root, the favicon, an
\* identifier, the unfilled template variable
GetPaths == {<<>>, <<Favicon>>, <<"abc1234">>, <<Sentinel>>}

\* what the handler the router picks does with a GET request
GetOutcomes(path, rows) ==
    LET h == FirstHandler("GET", path)
        text == IF path = <<>> THEN "" ELSE Head(path)
    IN  CASE h = "resolve" -> ResolveHandler(Head(path), rows)
          [] h = "favicon" -> {[pc |-> "done", id |-> text, queried |-> FALSE, lookup |-> "none",
                                resp |-> [status |-> 204, body |-> <<>>]]}
          [] h = "hello"   -> {[pc |-> "done", id |-> text, queried |-> FALSE, lookup |-> "none",
                                resp |-> [status |-> 200, body |-> Hello]]}
          [] OTHER         -> {[pc |-> "done", id |-> text, queried |-> FALSE, lookup |-> "none",
                                resp |-> [status |-> 404, body |-> <<"404 Not Found">>]]}

\* a GET request from its arrival to its response
Get(r) ==
    /\ nResolve < MaxResolve
    /\ \E path \in GetPaths : \E out \in GetOutcomes(path, records) :
          resolve' = [resolve EXCEPT ![r] = out]
    /\ nResolve' = nResolve + 1
    /\ UNCHANGED <<records, blobs, issue, now, nIssue, env, page, extracted,
                   textLength, fontSize, shortId,
                   generator, glyph>>

-----------------------------------------------------------------------------
(* calculateFontSize *)

minLengthThreshold == 50
maxLengthThreshold == 150
maxFontSize == 64
minFontSize == 32

\* Math.round of the fraction n / d (d > 0): the integer floor(n/d + 1/2)
MathRound(n, d) == (2 * n + d) \div (2 * d)

\* Math.floor of the fraction n / d
MathFloor(n, d) == n \div d

\* ratio = (textLength - 50) / (150 - 50); fontSize = 64 - ratio * (64 - 32),
\* kept here as the exact fraction num / span.  No length yields a fraction
\* within 0.02 of a half, so the floating point of the source rounds as the
\* exact value does.
calculateFontSizeFloor(len) ==
    IF len <= minLengthThreshold THEN maxFontSize
    ELSE IF len >= maxLengthThreshold THEN minFontSize
    ELSE LET span == maxLengthThreshold - minLengthThreshold
             num == maxFontSize * span
                      - (len - minLengthThreshold) * (maxFontSize - minFontSize)
         IN  MathFloor(num, span)

calculateFontSize(len) ==
    IF len <= minLengthThreshold THEN maxFontSize
    ELSE IF len >= maxLengthThreshold THEN minFontSize
    ELSE LET span == maxLengthThreshold - minLengthThreshold
             num == maxFontSize * span
                      - (len - minLengthThreshold) * (maxFontSize - minFontSize)
         IN  MathRound(num, span)

NoFontSize == [called |-> FALSE, value |-> 0]

-----------------------------------------------------------------------------
(* generateShortId *)

characters ==
    <<"a", "b", "c", "d", "e", "f", "g", "h", "i", "j", "k", "l", "m",
      "n", "o", "p", "q", "r", "s", "t", "u", "v", "w", "x", "y", "z",
      "0", "1", "2", "3", "4", "5", "6", "7", "8", "9">>
charactersLength == Len(characters)

ShortIdLength == 7

\* String.prototype.charAt: the empty string outside the string
charAt(str, i) == IF i \in 0..(Len(str) - 1) THEN <<str[i + 1]>> ELSE <<>>

\* Math.floor(Math.random() * charactersLength) is any index below
\* charactersLength; the draws followed here are the first and the last letter
\* and the first and the last digit.
Draws == {0, 25, 26, charactersLength - 1}

\* a loop that runs once more than asked
LoopConditionInclusive(i, length) == i <= length

\* for (let i = 0; i < length; i++)
LoopCondition(i, length) == i < length

IdleShortId == [pc |-> "loop", i |-> 0, result |-> <<>>]

-----------------------------------------------------------------------------
(* generateOgpImage: loadResources, initWasm, satori and resvg *)

FONT_SANS_KEY == "assets/NotoSansJP-Regular.ttf"
FONT_SERIF_KEY == "assets/NotoSerifJP-Regular.ttf"
FONT_LOGO_KEY == "assets/Inter_28pt-Regular.ttf"

\* the three caches, in the order loadResources walks them
FontCaches == <<"fontSansCache", "fontSerifCache", "fontLogoCache">>
FontKey(f) ==
    CASE f = "fontSansCache" -> FONT_SANS_KEY
      [] f = "fontSerifCache" -> FONT_SERIF_KEY
      [] f = "fontLogoCache" -> FONT_LOGO_KEY

\* the ArrayBuffer read from the object stored under a key
Buffer(key) == [t |-> "buffer", s |-> <<key>>]

\* The module state of a fresh process.  gets, loads and stores count, per
\* cache, the r2Bucket.get calls started, the objects they returned and the
\* assignments to the cache; inits counts the calls of initWasm.
ColdGenerator ==
    [fontSansCache |-> Null, fontSerifCache |-> Null, fontLogoCache |-> Null,
     wasmInitialized |-> FALSE,
     gets |-> [f \in {FontCaches[i] : i \in 1..3} |-> 0],
     loads |-> [f \in {FontCaches[i] : i \in 1..3} |-> 0],
     stores |-> [f \in {FontCaches[i] : i \in 1..3} |-> 0],
     inits |-> 0]

\* The first cache from position k on that is empty, 0 when none is:
\* if (!fontSansCache) ... if (!fontSerifCache) ... if (!fontLogoCache) ...
NextEmpty(g, k) ==
    LET e == {i \in k..3 : Falsy(g[FontCaches[i]])}
    IN  IF e = {} THEN 0 ELSE CHOOSE i \in e : \A j \in e : i <= j

\* loadResources from its k-th if on, up to its next await: either
\* r2Bucket.get is called for the first empty cache, or all three checks pass
\* and the function returns
EnterLoad(slot, g, k) ==
    LET n == NextEmpty(g, k)
    IN  IF n = 0
        THEN [slot |-> [slot EXCEPT !.pc = "loaded", !.font = ""], g |-> g]
        ELSE [slot |-> [slot EXCEPT !.pc = "get", !.font = FontCaches[n]],
              g |-> [g EXCEPT !.gets[FontCaches[n]] = @ + 1]]

\* a failure that leaves something other than a font in the cache
FontThrowSticky(g, f) == [g EXCEPT ![f] = Buffer("")]

\* throw new Error('Font file not found in R2'), or arrayBuffer() rejecting:
\* the assignment to the cache has not run, the module state is as it was
FontThrow(g, f) == g

FontIndex(f) == CHOOSE i \in 1..3 : FontCaches[i] = f

\* 2. await generateOgpImage(...): the call, up to the first await of
\* loadResources
RenderLoad(p) ==
    /\ issue[p].pc = "render"
    /\ LET e == EnterLoad([issue[p] EXCEPT !.initsBefore = generator.inits],
                          generator, 1)
       IN  /\ issue' = [issue EXCEPT ![p] = e.slot]
           /\ generator' = e.g
    /\ UNCHANGED <<records, blobs, resolve, now, nIssue, nResolve, env, page,
                   extracted, textLength, fontSize, shortId, glyph>>

\* const fontObject = await r2Bucket.get(KEY);
\* if (!fontObject) throw new Error('Font file not found in R2')
RenderGet(p) ==
    /\ issue[p].pc = "get"
    /\ \/ /\ issue' = [issue EXCEPT ![p] = [@ EXCEPT !.pc = "buffer"]]
          /\ generator' = [generator EXCEPT !.loads[issue[p].font] = @ + 1]
       \/ /\ issue' = [issue EXCEPT ![p] = Failed([@ EXCEPT !.font = ""], "font")]
          /\ generator' = FontThrow(generator, issue[p].font)
    /\ UNCHANGED <<records, blobs, resolve, now, nIssue, nResolve, env, page,
                   extracted, textLength, fontSize, shortId, glyph>>

\* fontXCache = await fontObject.arrayBuffer(); then the ifs that follow
RenderBuffer(p) ==
    /\ issue[p].pc = "buffer"
    /\ \/ LET f == issue[p].font
              g == [generator EXCEPT ![f] = Buffer(FontKey(f)),
                                     !.stores[f] = @ + 1]
              e == EnterLoad(issue[p], g, FontIndex(f) + 1)
          IN  /\ issue' = [issue EXCEPT ![p] = e.slot]
              /\ generator' = e.g
       \/ /\ issue' = [issue EXCEPT ![p] = Failed([@ EXCEPT !.font = ""], "font")]
          /\ generator' = FontThrow(generator, issue[p].font)
    /\ UNCHANGED <<records, blobs, resolve, now, nIssue, nResolve, env, page,
                   extracted, textLength, fontSize, shortId, glyph>>

\* if (!wasmInitialized)
NeedsInit(g) == ~g.wasmInitialized

\* loadResources has returned: if (!wasmInitialized) { await initWasm(...) },
\* else on to satori
RenderWasm(p) ==
    /\ issue[p].pc = "loaded"
    /\ IF NeedsInit(generator)
       THEN /\ issue' = [issue EXCEPT ![p] = [@ EXCEPT !.pc = "init", !.invokedInit = TRUE]]
            /\ generator' = [generator EXCEPT !.inits = @ + 1]
       ELSE /\ issue' = [issue EXCEPT ![p] = [@ EXCEPT !.pc = "satori"]]
            /\ UNCHANGED generator
    /\ UNCHANGED <<records, blobs, resolve, now, nIssue, nResolve, env, page,
                   extracted, textLength, fontSize, shortId, glyph>>

\* initWasm resolves: wasmInitialized = true; or it rejects
RenderInit(p) ==
    /\ issue[p].pc = "init"
    /\ \/ /\ issue' = [issue EXCEPT ![p] = [@ EXCEPT !.pc = "satori"]]
          /\ generator' = [generator EXCEPT !.wasmInitialized = TRUE]
       \/ /\ issue' = [issue EXCEPT ![p] = Failed(@, "init")]
          /\ UNCHANGED generator
    /\ UNCHANGED <<records, blobs, resolve, now, nIssue, nResolve, env, page,
                   extracted, textLength, fontSize, shortId, glyph>>

\* const svg = await satori(...); new Resvg(svg).render().asPng(); return
RenderSatori(p) ==
    /\ issue[p].pc = "satori"
    /\ \/ LET slot == issue[p]
          IN  issue' = [issue EXCEPT ![p] =
                          [slot EXCEPT !.pc = "put",
                                       !.png = Image(slot.quote, slot.meta.title,
                                                     slot.meta.author,
                                                     slot.meta.authorAvatarUrl)]]
       \/ issue' = [issue EXCEPT ![p] = Failed(@, "layout")]
    /\ UNCHANGED <<records, blobs, resolve, now, nIssue, nResolve, env, page,
                   extracted, textLength, fontSize, shortId, generator, glyph>>

\* --- loadAdditionalAsset ---

UNKNOWN_EMOJI_SVG ==
    <<"<svg xmlns=\"http://www.w3.org/2000/svg\" viewBox=\"0 0 36 36\" fill=\"#CCC\"><rect width=\"36\" height=\"36\"/></svg>">>

\* characters written as the text of their UTF-16 code units
NUL == "\\u0000"
Snowman == "\\u2603"
GrinningHigh == "\\uD83D"
GrinningLow == "\\uDE00"

\* btoa takes characters up to U+00FF only; every other token of the model is
\* ASCII text
Latin1(c) == c \notin {Snowman, GrinningHigh, GrinningLow, LoneSurrogate}

\* btoa(str): the Base64 text of the bytes of str, written here as the text
\* wrapped in a marker; it throws InvalidCharacterError on a character above
\* U+00FF
btoa(str) ==
    IF \A i \in 1..Len(str) : Latin1(str[i])
    THEN [raised |-> FALSE, s |-> <<"base64(">> \o str \o <<")">>]
    ELSE [raised |-> TRUE, s |-> <<>>]

\* text.codePointAt(0).toString(16), '' when there is no code point or it is 0
getIconCode(text) ==
    IF text = <<>> THEN ""
    ELSE CASE Head(text) = NUL -> ""
           [] Head(text) = Snowman -> "2603"
           [] Head(text) = GrinningHigh /\ Len(text) >= 2 /\ text[2] = GrinningLow -> "1f600"
           [] Head(text) = GrinningHigh -> "d83d"
           [] Head(text) = LoneSurrogate -> "d800"
           [] OTHER -> "61"

DataUri == "data:image/svg+xml;base64,"
NoAsset == [raised |-> FALSE, uri |-> <<>>, fetched |-> FALSE]

\* what the fetch of the Twemoji SVG can come to: the fetch rejects, the
\* status is not ok, text() rejects, or a body arrives
Replies ==
    {[kind |-> "throw", body |-> <<>>],
     [kind |-> "notok", body |-> <<"Not Found">>],
     [kind |-> "textfails", body |-> <<>>]}
    \cup {[kind |-> "ok", body |-> b] :
            b \in {<<"<svg>", "a", "</svg>">>, <<>>, <<"<html>">>,
                   <<"<svg>", Snowman, "</svg>">>}}

AssetCodes == {"emoji", "ja-JP", "unknown"}
AssetTexts == {<<>>, <<NUL>>, <<"a">>, <<Snowman>>, <<GrinningHigh, GrinningLow>>,
               <<LoneSurrogate>>}

\* the template literal `data:image/svg+xml;base64,${btoa(svg)}`; an exception
\* of btoa leaves the function
AsDataUri(svg, fetched) ==
    LET b == btoa(svg)
    IN  IF b.raised THEN [raised |-> TRUE, uri |-> <<>>, fetched |-> fetched]
        ELSE [raised |-> FALSE, uri |-> <<DataUri>> \o b.s, fetched |-> fetched]

loadAdditionalAsset(code_, text, reply) ==
    IF code_ # "emoji" THEN AsDataUri(UNKNOWN_EMOJI_SVG, FALSE)
    ELSE IF getIconCode(text) = "" THEN AsDataUri(UNKNOWN_EMOJI_SVG, FALSE)
    ELSE IF reply.kind = "ok" THEN AsDataUri(reply.body, TRUE)
    ELSE AsDataUri(UNKNOWN_EMOJI_SVG, TRUE)

NoGlyph == [called |-> FALSE, code |-> "", text |-> <<>>,
            reply |-> [kind |-> "throw", body |-> <<>>], result |-> NoAsset]

-----------------------------------------------------------------------------
(* The service *)

Init ==
    /\ records = {}
    /\ blobs = NoBlobs
    /\ issue = [p \in Issuers |-> IdleIssue]
    /\ resolve = [r \in Resolvers |-> IdleResolve]
    /\ now = 0
    /\ nIssue = 0
    /\ nResolve = 0
    /\ env \in Envs
    /\ page = NoPage
    /\ extracted = NotCalled
    /\ textLength = 0
    /\ fontSize = NoFontSize
    /\ shortId = IdleShortId
    /\ generator = ColdGenerator
    /\ glyph = NoGlyph

Next ==
    \/ \E p \in Issuers : IssueStart(p)
    \/ \E p \in Issuers : IssueFetchMetadata(p)
    \/ \E p \in Issuers : IssueRender(p)
    \/ \E p \in Issuers : IssuePut(p)
    \/ \E p \in Issuers : IssueInsert(p)
    \/ \E r \in Resolvers : Resolve(r)

Spec == Init /\ [][Next]_vars

-----------------------------------------------------------------------------
(* The extractor on its own: one page, one call *)

InitExtract ==
    /\ records = {}
    /\ blobs = NoBlobs
    /\ issue = [p \in Issuers |-> IdleIssue]
    /\ resolve = [r \in Resolvers |-> IdleResolve]
    /\ now = 0
    /\ nIssue = 0
    /\ nResolve = 0
    /\ env = Absent
    /\ page \in Pages
    /\ extracted = NotCalled
    /\ textLength = 0
    /\ fontSize = NoFontSize
    /\ shortId = IdleShortId
    /\ generator = ColdGenerator
    /\ glyph = NoGlyph

Extract ==
    /\ ~extracted.called
    /\ extracted' = [called |-> TRUE, result |-> fetchMetadata(page)]
    /\ UNCHANGED <<records, blobs, issue, resolve, now, nIssue, nResolve, env, page,
                   textLength, fontSize, shortId,
                   generator, glyph>>

NextExtract == Extract

SpecExtract == InitExtract /\ [][NextExtract]_vars

-----------------------------------------------------------------------------
(* The service behind its middleware and router: one worker slot of each kind *)

ApiSlots == {"i1"}
GetSlots == {"r1"}

InitApi ==
    /\ records = {}
    /\ blobs = NoBlobs
    /\ issue = [p \in Issuers |-> IdleIssue]
    /\ resolve = [r \in Resolvers |-> IdleResolve]
    /\ now = 0
    /\ nIssue = 0
    /\ nResolve = 0
    /\ env = Absent
    /\ page = NoPage
    /\ extracted = NotCalled
    /\ textLength = 0
    /\ fontSize = NoFontSize
    /\ shortId = IdleShortId
    /\ generator = ColdGenerator
    /\ glyph = NoGlyph

NextApi ==
    \/ \E p \in ApiSlots : Receive(p)
    \/ \E p \in ApiSlots : IssueFetchMetadata(p)
    \/ \E p \in ApiSlots : IssueRender(p)
    \/ \E p \in ApiSlots : IssuePut(p)
    \/ \E p \in ApiSlots : IssueInsert(p)
    \/ \E r \in GetSlots : Get(r)

SpecApi == InitApi /\ [][NextApi]_vars

-----------------------------------------------------------------------------
(* calculateFontSize on its own: one length, one call *)

InitFont ==
    /\ records = {}
    /\ blobs = NoBlobs
    /\ issue = [p \in Issuers |-> IdleIssue]
    /\ resolve = [r \in Resolvers |-> IdleResolve]
    /\ now = 0
    /\ nIssue = 0
    /\ nResolve = 0
    /\ env = Absent
    /\ page = NoPage
    /\ extracted = NotCalled
    /\ textLength \in 0..QuoteMax
    /\ fontSize = NoFontSize
    /\ shortId = IdleShortId
    /\ generator = ColdGenerator
    /\ glyph = NoGlyph

\* const quoteFontSize = calculateFontSize(quote.length)
FontSize ==
    /\ ~fontSize.called
    /\ fontSize' = [called |-> TRUE, value |-> calculateFontSize(textLength)]
    /\ UNCHANGED <<records, blobs, issue, resolve, now, nIssue, nResolve, env,
                   page, extracted, textLength, shortId,
                   generator, glyph>>

NextFont == FontSize

SpecFont == InitFont /\ [][NextFont]_vars

-----------------------------------------------------------------------------
(* generateShortId on its own: one call, one draw per turn of the loop *)

InitShortId ==
    /\ records = {}
    /\ blobs = NoBlobs
    /\ issue = [p \in Issuers |-> IdleIssue]
    /\ resolve = [r \in Resolvers |-> IdleResolve]
    /\ now = 0
    /\ nIssue = 0
    /\ nResolve = 0
    /\ env = Absent
    /\ page = NoPage
    /\ extracted = NotCalled
    /\ textLength = 0
    /\ fontSize = NoFontSize
    /\ shortId = IdleShortId
    /\ generator = ColdGenerator
    /\ glyph = NoGlyph

\* result += characters.charAt(Math.floor(Math.random() * charactersLength)); i++
ShortIdLoop ==
    /\ shortId.pc = "loop"
    /\ LoopCondition(shortId.i, ShortIdLength)
    /\ \E d \in Draws :
          shortId' = [shortId EXCEPT !.result = @ \o charAt(characters, d),
                                     !.i = @ + 1]
    /\ UNCHANGED <<records, blobs, issue, resolve, now, nIssue, nResolve, env,
                   page, extracted, textLength, fontSize,
                   generator, glyph>>

\* return result
ShortIdReturn ==
    /\ shortId.pc = "loop"
    /\ ~LoopCondition(shortId.i, ShortIdLength)
    /\ shortId' = [shortId EXCEPT !.pc = "returned"]
    /\ UNCHANGED <<records, blobs, issue, resolve, now, nIssue, nResolve, env,
                   page, extracted, textLength, fontSize,
                   generator, glyph>>

NextShortId == ShortIdLoop \/ ShortIdReturn

SpecShortId == InitShortId /\ [][NextShortId]_vars

-----------------------------------------------------------------------------
(* The pipeline with generateOgpImage step by step: two requests of one
   process, their awaits interleaved *)

InitRender ==
    /\ records = {}
    /\ blobs = NoBlobs
    /\ issue = [p \in Issuers |-> IdleIssue]
    /\ resolve = [r \in Resolvers |-> IdleResolve]
    /\ now = 0
    /\ nIssue = 0
    /\ nResolve = 0
    /\ env = Absent
    /\ page = NoPage
    /\ extracted = NotCalled
    /\ textLength = 0
    /\ fontSize = NoFontSize
    /\ shortId = IdleShortId
    /\ generator = ColdGenerator
    /\ glyph = NoGlyph

\* the requests followed here carry one quote and meet one article page
RenderIssueStart(p) == IssueStart(p) /\ issue'[p].quote = <<"H", "i", " ", "<">>
RenderIssueFetchMetadata(p) == IssueFetchMetadata(p) /\ issue'[p].pg.kind = "json"

NextRender ==
    \/ \E p \in Issuers : RenderIssueStart(p)
    \/ \E p \in Issuers : RenderIssueFetchMetadata(p)
    \/ \E p \in Issuers : RenderLoad(p)
    \/ \E p \in Issuers : RenderGet(p)
    \/ \E p \in Issuers : RenderBuffer(p)
    \/ \E p \in Issuers : RenderWasm(p)
    \/ \E p \in Issuers : RenderInit(p)
    \/ \E p \in Issuers : RenderSatori(p)
    \/ \E p \in Issuers : IssuePut(p)
    \/ \E p \in Issuers : IssueInsert(p)

SpecRender == InitRender /\ [][NextRender]_vars

-----------------------------------------------------------------------------
(* loadAdditionalAsset on its own: one call, one reply of the icon host *)

InitGlyph ==
    /\ records = {}
    /\ blobs = NoBlobs
    /\ issue = [p \in Issuers |-> IdleIssue]
    /\ resolve = [r \in Resolvers |-> IdleResolve]
    /\ now = 0
    /\ nIssue = 0
    /\ nResolve = 0
    /\ env = Absent
    /\ page = NoPage
    /\ extracted = NotCalled
    /\ textLength = 0
    /\ fontSize = NoFontSize
    /\ shortId = IdleShortId
    /\ generator = ColdGenerator
    /\ glyph \in {[NoGlyph EXCEPT !.code = c, !.text = t, !.reply = r] :
                    c \in AssetCodes, t \in AssetTexts, r \in Replies}

LoadGlyph ==
    /\ ~glyph.called
    /\ glyph' = [glyph EXCEPT !.called = TRUE,
                              !.result = loadAdditionalAsset(glyph.code, glyph.text,
                                                             glyph.reply)]
    /\ UNCHANGED <<records, blobs, issue, resolve, now, nIssue, nResolve, env,
                   page, extracted, textLength, fontSize, shortId, generator>>

NextGlyph == LoadGlyph

SpecGlyph == InitGlyph /\ [][NextGlyph]_vars

-----------------------------------------------------------------------------
(* Properties *)

Done(p) == issue[p].pc = "done"
Answered(r) == resolve[r].pc = "done"

\* the pages for which the extractor is said to fail: the fetch throws or is
\* not ok, the payload is not found or not parsed, title or author is missing
ClaimedFailure(pg) == pg.kind # "json" \/ pg.title = Absent \/ pg.author = Absent

\* C1: in every reachable state every row of the record store has a blob stored
\* under the key its ogp_image_url names, and a request that has reached its
\* record insert has its blob ogp/{id}.png stored already.
C1_BlobBeforeRecord ==
    /\ \A row \in records : KeyOfUrl(row.ogp_image_url) \in DOMAIN blobs
    /\ \A p \in Issuers :
          issue[p].pc = "insert" => r2Key(issue[p].id) \in DOMAIN blobs

C1_Witness ==
    \E row \in records, p \in Issuers :
       /\ issue[p].pc = "insert"
       /\ issue[p].id # row.id
       /\ KeyOfUrl(row.ogp_image_url) \in DOMAIN blobs

\* C2: a request that failed at any step has answered 500 and its statement has
\* not changed the record store; every row of the store carries all eight
\* columns, with the values the handler always has for id, title, author and
\* the two URLs.
C2_FailureInsertsNothing ==
    /\ \A p \in Issuers :
          Done(p) /\ (issue[p].failedAt # "none" \/ issue[p].resp.status # 200)
             => /\ issue[p].resp.status = 500
                /\ issue[p].failedAt # "none"
                /\ ~issue[p].inserted
    /\ \A row \in records :
          /\ DOMAIN row = RowFields
          /\ row.id # "" /\ row.title # <<>> /\ row.author # <<>>
          /\ row.original_url # <<>> /\ row.ogp_image_url # <<>>

C2_Witness ==
    \E p \in Issuers :
       /\ Done(p) /\ issue[p].failedAt = "insert" /\ issue[p].resp.status = 500
       /\ records # {}

\* C3: a request that succeeded has its image stored and its id resolvable; a
\* request that failed has left every record issued before it, and the blob each
\* of them references, exactly as they were when it was received.
C3_FailedIssueNoSideEffect ==
    \A p \in Issuers :
       Done(p) =>
          /\ issue[p].resp.status = 200 =>
                /\ KeyOfUrl(issue[p].resp.body.ogpImageUrl) \in DOMAIN blobs
                /\ D1First(records, issue[p].id).found
          /\ issue[p].resp.status = 500 =>
                \A e \in issue[p].pre : e \in Issued(records, blobs)

\* C4: no step removes or changes a row of the record store, and the store never
\* holds two rows with one id.
C4_RecordsUniqueAndImmutable ==
    [][/\ \A row \in records : row \in records'
       /\ \A a, b \in records' : a.id = b.id => a = b]_vars

C4_Witness ==
    \E p \in Issuers, row \in records :
       /\ Done(p) /\ issue[p].failedAt = "insert"
       /\ row.id = issue[p].id /\ row.quote # issue[p].quote

\* C5: once issue(quote, url) has answered 200 with {id, ogpImageUrl}, a GET /{id}
\* whose lookup works answers 200 with a document whose og:image content is
\* ogpImageUrl and whose refresh target is url, '#:~:text=', the encoded quote.
C5_ResolveCarriesIssued ==
    [][\A p \in Issuers, r \in Resolvers :
          /\ Done(p) /\ issue[p].resp.status = 200
          /\ resolve'[r] # resolve[r]
          /\ resolve'[r].id = issue[p].id
          /\ resolve'[r].resp.status # 500
          => /\ resolve'[r].resp.status = 200
             /\ AttrValue(resolve'[r].resp.body, OgImageOpen) = issue[p].resp.body.ogpImageUrl
             /\ AttrValue(resolve'[r].resp.body, RefreshOpen)
                   = <<RefreshDelay>> \o issue[p].url \o <<Fragment>>
                        \o encodeURIComponent(issue[p].quote).s]_vars

\* C6: a GET /{id} for an id other than 'undefined' that no row of the record
\* store carries, and whose lookup worked, has answered 404 'Not Found'.
C6_NeverIssuedIsNotFound ==
    \A r \in Resolvers :
       /\ Answered(r)
       /\ resolve[r].id # Sentinel
       /\ resolve[r].resp.status # 500
       /\ \A row \in records : row.id # resolve[r].id
       => resolve[r].resp = [status |-> 404, body |-> <<"Not Found">>]

C6_Witness ==
    \E r \in Resolvers :
       /\ Answered(r) /\ resolve[r].id # Sentinel /\ resolve[r].resp.status = 404
       /\ records # {}
       /\ \A row \in records : row.id # resolve[r].id

\* C7: any two GET /{id} answers for one id that carry HTML carry the same HTML,
\* whatever other requests ran between the two.
C7_ResolveIdempotent ==
    \A r1, r2 \in Resolvers :
       /\ Answered(r1) /\ Answered(r2)
       /\ resolve[r1].id = resolve[r2].id
       /\ resolve[r1].resp.status = 200 /\ resolve[r2].resp.status = 200
       => resolve[r1].resp.body = resolve[r2].resp.body

C7_Witness ==
    \E p \in Issuers :
       /\ Done(p) /\ issue[p].failedAt = "insert"
       /\ \A r \in Resolvers :
             /\ Answered(r) /\ resolve[r].id = issue[p].id
             /\ resolve[r].resp.status = 200

\* C8 as stated: on a failing page the extractor returns title "title
\* unavailable", author "author unavailable" and no avatar.
C8_SentinelAsStated ==
    extracted.called /\ ClaimedFailure(page)
       => /\ extracted.result.title = <<"title unavailable">>
          /\ extracted.result.author = <<"author unavailable">>
          /\ extracted.result.authorAvatarUrl = Null

\* C8: the extractor never raises; on a failing page it returns the literals of
\* its catch block and no avatar; a page with title and author and no avatar
\* yields its own title and author (raw or escaped) and no avatar.
C8_ExtractNeverRaises ==
    extracted.called =>
       /\ ~extracted.result.raised
       /\ ClaimedFailure(page) =>
             /\ extracted.result.title = TitleError
             /\ extracted.result.author = AuthorError
             /\ extracted.result.authorAvatarUrl = Null
       /\ (/\ page.kind = "json"
           /\ page.title.t = "str" /\ page.title.s # <<>>
           /\ page.author.t = "str" /\ page.author.s # <<>>
           /\ Falsy(page.avatar)) =>
             /\ extracted.result.title \in {page.title.s, sanitizeEscaping(page.title.s)}
             /\ extracted.result.author \in {page.author.s, sanitizeEscaping(page.author.s)}
             /\ extracted.result.authorAvatarUrl = Null

C8_Witness ==
    /\ extracted.called
    /\ page.kind = "badjson"
    /\ extracted.result.title = TitleError

\* C9: a request whose extraction failed and whose render, put and insert did
\* not fail has answered 200 and inserted a row with the catch block's title and
\* author and no avatar.
C9_DegradedMetadataStillIssues ==
    \A p \in Issuers :
       /\ Done(p)
       /\ ClaimedFailure(issue[p].pg)
       /\ issue[p].failedAt \notin {"render", "put", "encode", "insert"}
       => /\ issue[p].resp.status = 200
          /\ issue[p].resp.body = [id |-> issue[p].id,
                                   ogpImageUrl |-> ogpImageUrlOf(env, issue[p].id)]
          /\ issue[p].inserted
          /\ \E row \in records :
                /\ row.id = issue[p].id
                /\ row.title = TitleError /\ row.author = AuthorError
                /\ row.author_avatar_url = Null

C9_Witness ==
    \E p \in Issuers :
       /\ Done(p) /\ ClaimedFailure(issue[p].pg) /\ issue[p].resp.status = 200

\* C10: the title and author a successful extraction returns contain neither
\* '<' nor '>'.
C10_NoAngleBrackets ==
    extracted.called /\ ~ClaimedFailure(page)
       => /\ Chars(extracted.result.title) \cap {"<", ">"} = {}
          /\ Chars(extracted.result.author) \cap {"<", ">"} = {}

\* a POST /api/ogp request held by a slot, at any point from its arrival on
Posted(p) == issue[p].method = "POST"

\* C11 as stated: a POST /api/ogp whose quote is the empty string and whose url
\* is valid has been answered 400 by the validator, with no identifier
\* generated and no article fetched.
C11_EmptyQuoteRejected ==
    \A p \in Issuers :
       /\ Posted(p)
       /\ issue[p].body.quote = Str(<<>>)
       /\ issue[p].body.url = Str(ArticleUrl)
       => /\ Done(p)
          /\ issue[p].resp.status = 400
          /\ issue[p].id = ""
          /\ issue[p].pg = NoPage

\* the step in which slot p takes a new POST /api/ogp request
Arrives(p) ==
    /\ issue[p].pc \in {"idle", "done"}
    /\ issue'[p] # issue[p]
    /\ issue'[p].method = "POST"

\* C12: the step that receives a POST /api/ogp whose quote is longer than 200
\* characters, or whose url is no string, no URL, or does not start with
\* https://zenn.dev/, answers it 400 at once: no identifier is generated, no
\* article is fetched, and the record store and the blob store are unchanged.
\* A quote of exactly 200 characters with a valid url enters the pipeline.
C12_InvalidInputRejected ==
    [][\A p \in Issuers :
          Arrives(p) =>
             LET b == issue'[p].body
                 tooLong == b.quote.t = "str" /\ Len(b.quote.s) > QuoteMax
                 badUrl == \/ b.url.t # "str"
                           \/ ~IsUrl(b.url.s)
                           \/ Head(b.url.s) # "https://zenn.dev/"
             IN  /\ tooLong \/ badUrl =>
                       /\ issue'[p].pc = "done"
                       /\ issue'[p].resp.status = 400
                       /\ issue'[p].id = ""
                       /\ issue'[p].pg = NoPage
                       /\ issue'[p].failedAt = "none" /\ ~issue'[p].inserted
                       /\ records' = records /\ blobs' = blobs
                 /\ (/\ b.quote.t = "str" /\ Len(b.quote.s) = QuoteMax
                     /\ ~badUrl) =>
                       /\ issue'[p].pc = "meta"
                       /\ issue'[p].quote = b.quote.s]_vars

C12_Witness ==
    \E p \in Issuers :
       /\ Done(p) /\ Posted(p) /\ issue[p].resp.status = 400
       /\ issue[p].body.quote.t = "str"
       /\ Len(issue[p].body.quote.s) = QuoteMax + 1
       /\ \E row \in records : Len(row.quote) = QuoteMax

\* C13: a GET /undefined has been answered 404 'Not Found' without a query to
\* the record store, whatever the store holds; and were a row of the store
\* stored under the id 'undefined', the handler would still end so.
C13_SentinelNeverQueried ==
    /\ \A r \in Resolvers :
          Answered(r) /\ resolve[r].id = Sentinel
             => /\ resolve[r].resp = [status |-> 404, body |-> <<"Not Found">>]
                /\ ~resolve[r].queried
    /\ \A row \in records :
          \A out \in ResolveHandler(Sentinel, records \cup {[row EXCEPT !.id = Sentinel]}) :
             /\ out.resp = [status |-> 404, body |-> <<"Not Found">>]
             /\ ~out.queried

C13_Witness ==
    \E r \in Resolvers :
       /\ Answered(r) /\ resolve[r].id = Sentinel
       /\ records # {}

\* C14 as stated: a GET /favicon.ico has been answered 204 with no lookup in the
\* record store, and a GET / has been answered with the greeting.
C14_FaviconAndRoot ==
    \A r \in Resolvers :
       Answered(r) =>
          /\ resolve[r].id = Favicon =>
                /\ resolve[r].resp.status = 204
                /\ ~resolve[r].queried
          /\ resolve[r].id = "" =>
                resolve[r].resp = [status |-> 200, body |-> Hello]

\* C15: a request that failed at any step of its pipeline has been answered
\* with status 500 and the one fixed body, so any two failed requests carry
\* the same response, whichever steps they failed at.
C15_FailureIsGeneric ==
    /\ \A p \in Issuers :
          Done(p) /\ issue[p].failedAt # "none"
             => issue[p].resp = [status |-> 500,
                                 body |-> [error |-> "Failed to generate OGP link"]]
    /\ \A p, q \in Issuers :
          /\ Done(p) /\ issue[p].failedAt # "none"
          /\ Done(q) /\ issue[q].failedAt # "none"
          => issue[p].resp = issue[q].resp

C15_Witness ==
    \E p, q \in Issuers :
       /\ Done(p) /\ issue[p].failedAt = "render"
       /\ Done(q) /\ issue[q].failedAt = "insert"
       /\ issue[p].quote # issue[q].quote

\* a request to /api/ogp held by a slot, of any method
ViaApi(p) == issue[p].method # ""

\* the Origin values the middleware is said to allow
ClaimedAllowed(origin) ==
    /\ origin.t = "str"
    /\ \/ origin.s = <<"https://zenn.dev">>
       \/ (origin.s # <<>> /\ Head(origin.s) = "chrome-extension://")

\* C16: the response to a request to /api/ogp carries
\* Access-Control-Allow-Origin exactly when the request's Origin is
\* https://zenn.dev or opens with chrome-extension://, and its value is then
\* the request's Origin.
C16_AllowOriginIffAllowed ==
    \A p \in Issuers :
       ViaApi(p) =>
          /\ AllowOrigin \in DOMAIN issue[p].headers <=> ClaimedAllowed(issue[p].origin)
          /\ AllowOrigin \in DOMAIN issue[p].headers
                => issue[p].headers[AllowOrigin] = issue[p].origin.s

C16_Witness ==
    \E p \in Issuers :
       /\ Done(p) /\ Posted(p) /\ issue[p].resp.status = 200
       /\ issue[p].origin = Str(<<"chrome-extension://", "abcdefgh">>)
       /\ issue[p].headers[AllowOrigin] = <<"chrome-extension://", "abcdefgh">>

\* C17 as stated: the response to a request to /api/ogp whose Origin is absent
\* or not allowed carries no CORS header at all.
C17_NoCorsHeaders ==
    \A p \in Issuers :
       ViaApi(p) /\ ~ClaimedAllowed(issue[p].origin)
          => DOMAIN issue[p].headers \cap {AllowOrigin, AllowMethods, AllowHeaders} = {}

\* C17: the response to a request to /api/ogp whose Origin is absent or not
\* allowed carries no Access-Control-Allow-Origin; it does carry
\* Access-Control-Allow-Methods, Access-Control-Allow-Headers and Vary.
C17_NoAllowOriginButTheRest ==
    \A p \in Issuers :
       ViaApi(p) /\ ~ClaimedAllowed(issue[p].origin)
          => /\ DOMAIN issue[p].headers = {AllowMethods, AllowHeaders, Vary}
             /\ issue[p].headers[AllowMethods] = <<"POST, GET, OPTIONS">>
             /\ issue[p].headers[AllowHeaders] = <<"Content-Type">>
             /\ issue[p].headers[Vary] = <<"Origin">>

C17_Witness ==
    \E p \in Issuers :
       /\ Done(p) /\ Posted(p) /\ issue[p].resp.status = 200
       /\ issue[p].origin = Str(<<"https://zenn.dev", ".evil.example">>)
       /\ AllowMethods \in DOMAIN issue[p].headers
       /\ \E row \in records : row.id = issue[p].id

\* C18: the step that receives an OPTIONS request to /api/ogp answers it 204
\* with Access-Control-Allow-Methods and Access-Control-Allow-Headers set; the
\* issuance handler is not entered: no identifier, no fetch, and both stores
\* unchanged; and a slot holding an OPTIONS request is never in the pipeline.
C18_PreflightAnswered ==
    [][\A p \in Issuers :
          /\ (/\ issue[p].pc \in {"idle", "done"}
              /\ issue'[p] # issue[p]
              /\ issue'[p].method = "OPTIONS")
             => /\ issue'[p].pc = "done"
                /\ issue'[p].resp.status = 204
                /\ {AllowMethods, AllowHeaders} \subseteq DOMAIN issue'[p].headers
                /\ issue'[p].headers[AllowMethods] = <<"POST, GET, OPTIONS">>
                /\ issue'[p].headers[AllowHeaders] = <<"Content-Type">>
                /\ issue'[p].id = "" /\ issue'[p].pg = NoPage
                /\ records' = records /\ blobs' = blobs
          /\ issue'[p].method = "OPTIONS" => issue'[p].pc = "done"]_vars

C18_Witness ==
    \E p \in Issuers :
       /\ Done(p) /\ issue[p].method = "OPTIONS" /\ issue[p].resp.status = 204
       /\ issue[p].origin = Str(<<"https://zenn.dev">>)
       /\ records # {}

\* C19 as stated: for a length strictly between the two thresholds the font
\* size lies strictly between 32 and 64.
C19_StrictlyBetween ==
    fontSize.called /\ 50 < textLength /\ textLength < 150
       => 32 < fontSize.value /\ fontSize.value < 64

\* C19: for every length L in 0..200 the font size is 64 when L <= 50, 32 when
\* L >= 150, and otherwise the integer nearest to 64 - (L - 50) * 32 / 100,
\* which lies between 32 and 64: strictly between for 52 <= L <= 148, 64 at
\* L = 51 and 32 at L = 149.  Length 10 gives 64, length 200 gives 32, length
\* 100 gives 48.
C19_FontSizeByLength ==
    fontSize.called =>
       LET L == textLength
           v == fontSize.value
           x100 == 6400 - (L - 50) * 32
       IN  /\ L <= 50 => v = 64
           /\ L >= 150 => v = 32
           /\ 50 < L /\ L < 150 =>
                 /\ 100 * v - 50 <= x100 /\ x100 < 100 * v + 50
                 /\ 32 <= v /\ v <= 64
                 /\ (32 < v /\ v < 64) <=> (52 <= L /\ L <= 148)
           /\ L = 10 => v = 64
           /\ L = 200 => v = 32
           /\ L = 100 => v = 48

C19_Witness ==
    /\ fontSize.called
    /\ textLength = 51
    /\ fontSize.value = 64

Lowercase == {"a", "b", "c", "d", "e", "f", "g", "h", "i", "j", "k", "l", "m",
              "n", "o", "p", "q", "r", "s", "t", "u", "v", "w", "x", "y", "z"}
Digits == {"0", "1", "2", "3", "4", "5", "6", "7", "8", "9"}
SentinelChars == <<"u", "n", "d", "e", "f", "i", "n", "e", "d">>

\* C20: an identifier the generator has returned is exactly 7 characters long,
\* each a lowercase letter or a digit, and is not the text 'undefined'; while
\* it is being built it is never longer than that, and the generator leaves
\* the record store as it was.
C20_ShortIdShape ==
    /\ shortId.pc = "returned" =>
          /\ Len(shortId.result) = 7
          /\ shortId.i = 7
          /\ \A k \in 1..Len(shortId.result) : shortId.result[k] \in Lowercase \cup Digits
          /\ shortId.result # SentinelChars
    /\ Len(shortId.result) <= 7
    /\ records = {}

C20_Witness ==
    /\ shortId.pc = "returned"
    /\ \E j, k \in 1..Len(shortId.result) :
          shortId.result[j] = "z" /\ shortId.result[k] = "9"

\* C21: a GET /{id} for an id other than 'undefined' has been answered in
\* exactly one of three ways: 200 with the HTML of the row of that id when the
\* lookup found it, 404 'Not Found' when the lookup worked and found nothing,
\* 500 'Internal Server Error' when the lookup failed; a failed lookup is
\* answered neither 404 nor 200.
C21_ResolveTrichotomy ==
    \A r \in Resolvers :
       Answered(r) /\ resolve[r].id # Sentinel =>
          /\ resolve[r].queried
          /\ resolve[r].lookup \in {"hit", "miss", "failed"}
          /\ resolve[r].lookup = "hit" <=> resolve[r].resp.status = 200
          /\ resolve[r].lookup = "miss" <=> resolve[r].resp.status = 404
          /\ resolve[r].lookup = "failed" <=> resolve[r].resp.status = 500
          /\ resolve[r].resp.status = 200 =>
                \E row \in records :
                   /\ row.id = resolve[r].id
                   /\ resolve[r].resp.body = html(row)
          /\ resolve[r].resp.status = 404 => resolve[r].resp.body = <<"Not Found">>
          /\ resolve[r].resp.status = 500 =>
                resolve[r].resp.body = <<"Internal Server Error">>

C21_Witness ==
    \E r1, r2 \in Resolvers :
       /\ Answered(r1) /\ Answered(r2)
       /\ resolve[r1].id = resolve[r2].id
       /\ resolve[r1].lookup = "failed" /\ resolve[r1].resp.status = 500
       /\ resolve[r2].lookup = "hit" /\ resolve[r2].resp.status = 200

\* a request that is inside the fetch of font f: between r2Bucket.get and the
\* assignment to the cache
Fetching(p, f) == issue[p].pc \in {"get", "buffer"} /\ issue[p].font = f

AllFonts == {FontCaches[i] : i \in 1..3}

\* C22 as stated: no two render calls are fetching one font at a time, and no
\* font's cache is assigned a second time.
C22_FontFetchedOnce ==
    \A f \in AllFonts :
       /\ \A p, q \in Issuers : Fetching(p, f) /\ Fetching(q, f) => p = q
       /\ generator.stores[f] <= 1

\* C23 as stated: unless an initialization failed, initWasm has been invoked
\* at most once, and no render call that started after an invocation has
\* invoked it.
C23_InitWasmOnce ==
    (\A p \in Issuers : issue[p].failedAt # "init") =>
       /\ generator.inits <= 1
       /\ \A p \in Issuers : issue[p].initsBefore > 0 => ~issue[p].invokedInit

RenderFailures == {"font", "init", "layout"}

\* C24: a request whose render call failed (a font not obtained, initWasm
\* rejecting, satori or resvg throwing) has been answered 500 with the fixed
\* body without calling the blob put or the insert, and never enters the put;
\* every blob in the store is an image a completed render call returned.
C24_RenderFailurePropagates ==
    /\ \A p \in Issuers :
          issue[p].failedAt \in RenderFailures =>
             /\ Done(p)
             /\ issue[p].resp = [status |-> 500,
                                 body |-> [error |-> "Failed to generate OGP link"]]
             /\ issue[p].calls.put = 0 /\ issue[p].calls.insert = 0
             /\ ~issue[p].inserted
             /\ issue[p].png = NoImage
    /\ \A k \in DOMAIN blobs :
          /\ blobs[k] # NoImage
          /\ blobs[k].title # <<>> /\ blobs[k].quote # <<>>

C24_Witness ==
    \E p, q \in Issuers :
       /\ Done(p) /\ issue[p].failedAt = "layout"
       /\ Done(q) /\ issue[q].failedAt = "font"
       /\ issue[p].id = issue[q].id
       /\ DOMAIN blobs = {}

\* C25: a request has called the article fetch, the blob put and the record
\* insert at most once each; a request whose put failed has been answered 500
\* after that one put and no insert, and a request whose insert failed has
\* been answered 500 after one put and that one insert.
C25_NoRetries ==
    \A p \in Issuers :
       /\ issue[p].calls.fetch <= 1
       /\ issue[p].calls.put <= 1
       /\ issue[p].calls.insert <= 1
       /\ issue[p].failedAt = "put" =>
             /\ Done(p) /\ issue[p].resp.status = 500
             /\ issue[p].calls = [fetch |-> 1, put |-> 1, insert |-> 0]
       /\ issue[p].failedAt = "insert" =>
             /\ Done(p) /\ issue[p].resp.status = 500
             /\ issue[p].calls = [fetch |-> 1, put |-> 1, insert |-> 1]

C25_Witness ==
    \E p, q \in Issuers :
       /\ Done(p) /\ issue[p].failedAt = "put" /\ issue[p].calls.put = 1
       /\ Done(q) /\ issue[q].failedAt = "insert" /\ issue[q].calls.insert = 1
       /\ ~issue[q].inserted


PlaceholderUri == <<DataUri>> \o btoa(UNKNOWN_EMOJI_SVG).s

PlaceholderCase ==
    \/ glyph.code # "emoji"
    \/ getIconCode(glyph.text) = ""
    \/ glyph.reply.kind \in {"throw", "notok", "textfails"}

\* C26: loadAdditionalAsset never raises and always returns an image data
\* URI; for an unexpected asset kind, an unresolvable code point, a failed or
\* non-success fetch or an unreadable body the URI is the placeholder glyph's.
C26_AssetNeverRaises ==
    glyph.called =>
       /\ ~glyph.result.raised
       /\ glyph.result.uri # <<>> /\ Head(glyph.result.uri) = DataUri
       /\ PlaceholderCase => glyph.result.uri = PlaceholderUri


\* C27: the blob stored under a record's image key is the image rendered from
\* that record's quote, title and author, whatever other issue requests have
\* run, concurrently or with the same generated id.
C27_BlobMatchesRecord ==
    \A row \in records :
       /\ KeyOfUrl(row.ogp_image_url) \in DOMAIN blobs
       /\ blobs[KeyOfUrl(row.ogp_image_url)]
             = Image(row.quote, row.title, row.author, row.author_avatar_url)


FontFailsAt(p) == issue[p].failedAt # "font" /\ issue'[p].failedAt = "font"
Caches(g) == [f \in AllFonts |-> g[f]]

\* C28: a failed font load is not sticky.  A cache entry that is not empty is
\* the buffer of its own font and was stored after a successful fetch; the
\* step at which a font load fails changes no cache entry; a cache entry that
\* is filled is never emptied; a render call that finds a cache empty asks the
\* bucket for that font again; and a request that is answered 200 has found or
\* loaded all three fonts.
C28_FontFailureNotSticky ==
    /\ [](\A f \in AllFonts :
             ~Falsy(generator[f]) =>
                /\ generator[f] = Buffer(FontKey(f))
                /\ generator.loads[f] >= 1 /\ generator.stores[f] >= 1)
    /\ [](\A p \in Issuers :
             Done(p) /\ issue[p].resp.status = 200 =>
                \A f \in AllFonts : ~Falsy(generator[f]))
    /\ [][/\ \A p \in Issuers : FontFailsAt(p) => Caches(generator') = Caches(generator)
          /\ \A f \in AllFonts : ~Falsy(generator[f]) => generator'[f] = generator[f]
          /\ \A p \in Issuers :
                issue[p].pc = "render" /\ issue'[p].pc # "render"
                /\ NextEmpty(generator, 1) # 0 =>
                   /\ issue'[p].pc = "get"
                   /\ issue'[p].font = FontCaches[NextEmpty(generator, 1)]
                   /\ generator'.gets[issue'[p].font] = generator.gets[issue'[p].font] + 1]_vars

\* one request has failed on the serif font after the sans font was cached, and
\* a later request was issued after fetching the serif font again
C28_Witness ==
    \E p, q \in Issuers :
       /\ Done(p) /\ issue[p].failedAt = "font" /\ issue[p].resp.status = 500
       /\ Done(q) /\ issue[q].resp.status = 200
       /\ generator.gets["fontSansCache"] = 1
       /\ generator.gets["fontSerifCache"] = 2
       /\ generator.loads["fontSerifCache"] = 1

====
